---- MODULE Spec2Model ----
(***************************************************************************)
(* PairsManager of rlhfalife/data_managers.py: the pairs dataframe         *)
(* (hash1, hash2, winner), its CSV file, and the operations add_pairs,     *)
(* set_winner, reset_rankings, reset and _reindex_pairs.                   *)
(*                                                                         *)
(* Hashes are the integers 1..NumItems, ordered as the strings are.        *)
(* A winner is None (the empty sequence) or <<v>> for a number v; the      *)
(* numbers are integers, so that 1 - v is exact.                           *)
(*                                                                         *)
(* Spec runs the public methods from an empty store.  The variable call    *)
(* holds one observed call (its arguments, whether it raised, and the      *)
(* dataframe and file before it) until Forget drops it, which happens      *)
(* before the next call.  SpecReindex runs the loop of _reindex_pairs one  *)
(* iteration at a time on a dataframe drawn from the stores of at most     *)
(* MaxPool rows over NumPoolItems hashes.  SpecSession runs a labeling     *)
(* session on such a dataframe: get_next_unranked_pair, then set_winner on *)
(* the pair it returned, until it returns (None, None).                    *)
(***************************************************************************)
EXTENDS Integers, Sequences, FiniteSets, TLC

NumItems == 3
MaxBatch == 2
MaxRecords == 2
NumPoolItems == 4
MaxPool == 3

Hashes == 1..NumItems

None == <<>>
Some(v) == <<v>>

\* the numbers passed to set_winner: 0 and 1 are in [0, 1], -1 and 2 are not
WinnerArgs == {-1, 0, 1, 2}
\* the entries of a winners list passed to add_pairs: None, 0 (in range), 2 (not)
WinnerEntries == {None, Some(0), Some(2)}

VARIABLES
    pairs_df,         \* self.pairs_df: the rows, in index order
    csv,              \* the rows of the file at pairs_path
    call,             \* the observed call, NoCall if none
    pc,               \* where _reindex_pairs is, in SpecReindex
    unranked_pairs,   \* the pool of _reindex_pairs (pairs, after reset_index)
    remaining_pairs,  \* the index labels still in remaining_pairs
    hash_counts,
    ordered_rows,
    session           \* in SpecSession: the dataframe at the start, the pairs returned

vars == <<pairs_df, csv, call, pc, unranked_pairs, remaining_pairs, hash_counts,
          ordered_rows, session>>
loop_vars == <<pc, unranked_pairs, remaining_pairs, hash_counts, ordered_rows>>

Row(h1, h2, w) == [hash1 |-> h1, hash2 |-> h2, winner |-> w]

isna(w) == w = None

\* FlipWinner without the adjustment of a swapped winner
FlipWinnerKept(w) == w

\* lambda w: (1.0 - w) if isinstance(w, (float, int)) else None
FlipWinner(w) == IF isna(w) THEN None ELSE Some(1 - w[1])

SeqsUpTo(S, n) == UNION {[1..k -> S] : k \in 0..n}

\* self.pairs_df[self.pairs_df['winner'].isna()]: the unranked rows, in order
RECURSIVE Unranked(_)
Unranked(df) ==
    IF df = <<>> THEN <<>>
    ELSE IF isna(Head(df).winner) THEN <<Head(df)>> \o Unranked(Tail(df))
    ELSE Unranked(Tail(df))

\* self.pairs_df[self.pairs_df['winner'].notna()]: the ranked rows, in order
RECURSIVE Ranked(_)
Ranked(df) ==
    IF df = <<>> THEN <<>>
    ELSE IF ~isna(Head(df).winner) THEN <<Head(df)>> \o Ranked(Tail(df))
    ELSE Ranked(Tail(df))

-----------------------------------------------------------------------------
(* _reindex_pairs *)

\* hash_counts[h] after the rows pool[ordered[1]], ..., have been chosen
HashCount(pool, ordered, h) ==
    Cardinality({k \in 1..Len(ordered) : pool[ordered[k]].hash1 = h})
    + Cardinality({k \in 1..Len(ordered) : pool[ordered[k]].hash2 = h})

Score(pool, ordered, i) ==
    HashCount(pool, ordered, pool[i].hash1) + HashCount(pool, ordered, pool[i].hash2)

\* the rows sample(n=1) can draw from: those of minimal score
MinScoreRows(pool, remaining, ordered) ==
    {i \in remaining : \A j \in remaining : Score(pool, ordered, i) <= Score(pool, ordered, j)}

\* every order the while loop can produce, as sequences of pool indices
RECURSIVE GreedyOrders(_, _, _)
GreedyOrders(pool, remaining, ordered) ==
    IF remaining = {} THEN {ordered}
    ELSE UNION {GreedyOrders(pool, remaining \ {i}, Append(ordered, i)) :
                    i \in MinScoreRows(pool, remaining, ordered)}

\* Reindexed with the ranked rows put first
ReindexedRankedFirst(df) ==
    LET pool == Unranked(df)
    IN  {Ranked(df) \o [k \in 1..Len(o) |-> pool[o[k]]] :
            o \in GreedyOrders(pool, 1..Len(pool), <<>>)}

\* Reindexed without the ranked rows
ReindexedUnrankedOnly(df) ==
    LET pool == Unranked(df)
    IN  {[k \in 1..Len(o) |-> pool[o[k]]] :
            o \in GreedyOrders(pool, 1..Len(pool), <<>>)}

\* the dataframes _reindex_pairs can leave in pairs_df
Reindexed(df) ==
    LET pool == Unranked(df)
    IN  {[k \in 1..Len(o) |-> pool[o[k]]] \o Ranked(df) :
            o \in GreedyOrders(pool, 1..Len(pool), <<>>)}

-----------------------------------------------------------------------------
(* add_pairs *)

\* the inner merge on (hash1, hash2) = (p_hash1, p_hash2): the p_ids of the input
\* rows merged with row i of the dataframe
MergedFwd(df, pairs, i) ==
    {j \in 1..Len(pairs) : pairs[j][1] = df[i].hash1 /\ pairs[j][2] = df[i].hash2}

\* the inner merge on (hash1, hash2) = (p_hash2, p_hash1) of the rows in ids
MergedBwd(df, pairs, ids, i) ==
    {j \in ids : pairs[j][2] = df[i].hash1 /\ pairs[j][1] = df[i].hash2}

\* Canonical without the swap
CanonicalAsGiven(pair, w) == Row(pair[1], pair[2], w)

\* canonicalization of a new row: p_hash1 <= p_hash2, winner adjusted when swapped
Canonical(pair, w) ==
    IF pair[1] > pair[2] THEN Row(pair[2], pair[1], FlipWinner(w))
    ELSE Row(pair[1], pair[2], w)

\* FinalNewRows without drop_duplicates
RECURSIVE FinalNewRowsAll(_, _, _, _)
FinalNewRowsAll(pairs, winners, ids, j) ==
    IF j > Len(pairs) THEN <<>>
    ELSE LET row == Canonical(pairs[j], winners[j])
         IN  IF j \notin ids \/ row.hash1 = row.hash2
             THEN FinalNewRowsAll(pairs, winners, ids, j + 1)
             ELSE <<row>> \o FinalNewRowsAll(pairs, winners, ids, j + 1)

\* FinalNewRows with drop_duplicates(keep='first')
RECURSIVE FinalNewRowsFirst(_, _, _, _)
FinalNewRowsFirst(pairs, winners, ids, j) ==
    IF j > Len(pairs) THEN <<>>
    ELSE LET row == Canonical(pairs[j], winners[j])
         IN  IF \/ j \notin ids
                \/ row.hash1 = row.hash2
                \/ \E k \in ids : k < j /\ Canonical(pairs[k], winners[k]).hash1 = row.hash1
                                        /\ Canonical(pairs[k], winners[k]).hash2 = row.hash2
             THEN FinalNewRowsFirst(pairs, winners, ids, j + 1)
             ELSE <<row>> \o FinalNewRowsFirst(pairs, winners, ids, j + 1)

\* FinalNewRows that keeps the rows with hash1 = hash2
RECURSIVE FinalNewRowsSelf(_, _, _, _)
FinalNewRowsSelf(pairs, winners, ids, j) ==
    IF j > Len(pairs) THEN <<>>
    ELSE LET row == Canonical(pairs[j], winners[j])
         IN  IF \/ j \notin ids
                \/ \E k \in ids : k > j /\ Canonical(pairs[k], winners[k]).hash1 = row.hash1
                                        /\ Canonical(pairs[k], winners[k]).hash2 = row.hash2
             THEN FinalNewRowsSelf(pairs, winners, ids, j + 1)
             ELSE <<row>> \o FinalNewRowsSelf(pairs, winners, ids, j + 1)

\* the new rows, from input row j on: the rows of ids made canonical, without the
\* rows that a later row of ids duplicates (drop_duplicates, keep='last') and
\* without the rows with hash1 = hash2
RECURSIVE FinalNewRows(_, _, _, _)
FinalNewRows(pairs, winners, ids, j) ==
    IF j > Len(pairs) THEN <<>>
    ELSE LET row == Canonical(pairs[j], winners[j])
         IN  IF \/ j \notin ids
                \/ row.hash1 = row.hash2
                \/ \E k \in ids : k > j /\ Canonical(pairs[k], winners[k]).hash1 = row.hash1
                                        /\ Canonical(pairs[k], winners[k]).hash2 = row.hash2
             THEN FinalNewRows(pairs, winners, ids, j + 1)
             ELSE <<row>> \o FinalNewRows(pairs, winners, ids, j + 1)

\* add_pairs from the merges to the call of _reindex_pairs: raised = a ValueError
\* left the method, df = pairs_df at that point.  DataFrame.update reindexes the
\* update series on the dataframe's index, which raises ValueError when one row
\* of the dataframe was merged with two input rows, and it writes only the
\* non-NA values of the series.
Merge(df, pairs, winners) ==
    LET n == Len(pairs)
        rows == 1..Len(df)
        fwd == [i \in rows |-> MergedFwd(df, pairs, i)]
        done1 == UNION {fwd[i] : i \in rows}
        df1 == [i \in rows |->
                  IF \E j \in fwd[i] : ~isna(winners[j])
                  THEN [df[i] EXCEPT !.winner = winners[CHOOSE j \in fwd[i] : TRUE]]
                  ELSE df[i]]
        bwd == [i \in rows |-> MergedBwd(df, pairs, (1..n) \ done1, i)]
        done2 == done1 \cup UNION {bwd[i] : i \in rows}
        df2 == [i \in rows |->
                  IF \E j \in bwd[i] : ~isna(winners[j])
                  THEN [df1[i] EXCEPT !.winner = FlipWinner(winners[CHOOSE j \in bwd[i] : TRUE])]
                  ELSE df1[i]]
    IN  IF \E i \in rows : Cardinality(fwd[i]) > 1 THEN [raised |-> TRUE, df |-> df]
        ELSE IF \E i \in rows : Cardinality(bwd[i]) > 1 THEN [raised |-> TRUE, df |-> df1]
        ELSE [raised |-> FALSE, df |-> df2 \o FinalNewRows(pairs, winners, (1..n) \ done2, 1)]

\* what the observer records of a call
Call(op, pairs, winners, raised) ==
    [op |-> op, pairs |-> pairs, winners |-> winners, raised |-> raised,
     old_df |-> pairs_df, old_csv |-> csv]

NoCall ==
    [op |-> "none", pairs |-> <<>>, winners |-> None, raised |-> FALSE,
     old_df |-> <<>>, old_csv |-> <<>>]

\* the observer records the call; Forget drops the record before the next call
Observe(c) == call' = c

\* add_pairs(pairs, winners): winners is None or Some(list)
add_pairs_body(name, pairs, winners) ==
    IF pairs = <<>>
    THEN /\ pairs_df' \in Reindexed(pairs_df)
         /\ csv' = pairs_df'
         /\ Observe(Call(name, pairs, winners, FALSE))
    ELSE LET effective_winners ==
                 IF winners = None THEN [j \in 1..Len(pairs) |-> None] ELSE winners[1]
         IN  IF Len(pairs) # Len(effective_winners)
             THEN /\ UNCHANGED <<pairs_df, csv>>
                  /\ Observe(Call(name, pairs, winners, TRUE))
             ELSE LET m == Merge(pairs_df, pairs, effective_winners)
                  IN  IF m.raised
                      THEN /\ pairs_df' = m.df
                           /\ UNCHANGED csv
                           /\ Observe(Call(name, pairs, winners, TRUE))
                      ELSE /\ Len(m.df) <= MaxRecords
                           /\ pairs_df' \in Reindexed(m.df)
                           /\ csv' = pairs_df'
                           /\ Observe(Call(name, pairs, winners, FALSE))

\* the winners arguments tried with pairs: None, every list of the same length,
\* and one list of every other length
WinnerLists(pairs) ==
    {None}
    \cup {Some(ws) : ws \in [1..Len(pairs) -> WinnerEntries]}
    \cup {Some([j \in 1..k |-> Some(0)]) : k \in (0..MaxBatch) \ {Len(pairs)}}

add_pairs ==
    \E pairs \in SeqsUpTo(Hashes \X Hashes, MaxBatch) :
    \E winners \in WinnerLists(pairs) :
        /\ add_pairs_body("add_pairs", pairs, winners)
        /\ UNCHANGED <<loop_vars, session>>

-----------------------------------------------------------------------------
(* set_winner, reset_rankings, reset *)

\* OutOfRange without the test winner < 0
OutOfRangeAbove(winner) == winner > 1

\* winner < 0 or winner > 1
OutOfRange(winner) == winner < 0 \/ winner > 1

\* the index of the pair, in either order
PairIdx(df, hash1, hash2) ==
    {i \in 1..Len(df) :
        \/ df[i].hash1 = hash1 /\ df[i].hash2 = hash2
        \/ df[i].hash1 = hash2 /\ df[i].hash2 = hash1}

Min(S) == CHOOSE x \in S : \A y \in S : x <= y

\* set_winner with _reindex_pairs after the write to the row it found
set_winner_body_reindexed(hash1, hash2, winner) ==
    LET pairs == <<<<hash1, hash2>>>>
        winners == Some(<<Some(winner)>>)
    IN  IF OutOfRange(winner)
        THEN /\ UNCHANGED <<pairs_df, csv>>
             /\ Observe(Call("set_winner", pairs, winners, TRUE))
        ELSE LET pair_idx == PairIdx(pairs_df, hash1, hash2)
             IN  IF pair_idx # {}
                 THEN LET i == Min(pair_idx)
                      IN  /\ pairs_df' \in Reindexed([pairs_df EXCEPT ![i].winner =
                                 IF pairs_df[i].hash1 = hash1 THEN Some(winner)
                                 ELSE Some(1 - winner)])
                          /\ csv' = pairs_df'
                          /\ Observe(Call("set_winner", pairs, winners, FALSE))
                 ELSE add_pairs_body("set_winner", pairs, winners)

set_winner_body(hash1, hash2, winner) ==
    LET pairs == <<<<hash1, hash2>>>>
        winners == Some(<<Some(winner)>>)
    IN  IF OutOfRange(winner)
        THEN /\ UNCHANGED <<pairs_df, csv>>
             /\ Observe(Call("set_winner", pairs, winners, TRUE))
        ELSE LET pair_idx == PairIdx(pairs_df, hash1, hash2)
             IN  IF pair_idx # {}
                 THEN LET i == Min(pair_idx)
                      IN  /\ pairs_df' = [pairs_df EXCEPT ![i].winner =
                                 IF pairs_df[i].hash1 = hash1 THEN Some(winner)
                                 ELSE Some(1 - winner)]
                          /\ UNCHANGED csv
                          /\ Observe(Call("set_winner", pairs, winners, FALSE))
                 ELSE add_pairs_body("set_winner", pairs, winners)

set_winner ==
    \E hash1 \in Hashes, hash2 \in Hashes, winner \in WinnerArgs :
        /\ set_winner_body(hash1, hash2, winner)
        /\ UNCHANGED <<loop_vars, session>>

\* reset_rankings followed by _reindex_pairs
reset_rankings_reindexed ==
    /\ pairs_df' \in Reindexed([i \in 1..Len(pairs_df) |-> [pairs_df[i] EXCEPT !.winner = None]])
    /\ csv' = pairs_df'
    /\ Observe(Call("reset_rankings", <<>>, None, FALSE))
    /\ UNCHANGED <<loop_vars, session>>

reset_rankings ==
    /\ pairs_df' = [i \in 1..Len(pairs_df) |-> [pairs_df[i] EXCEPT !.winner = None]]
    /\ csv' = pairs_df'
    /\ Observe(Call("reset_rankings", <<>>, None, FALSE))
    /\ UNCHANGED <<loop_vars, session>>

reset ==
    /\ pairs_df' = <<>>
    /\ csv' = pairs_df'
    /\ Observe(Call("reset", <<>>, None, FALSE))
    /\ UNCHANGED <<loop_vars, session>>

-----------------------------------------------------------------------------
(* the queries *)

get_nb_unranked_pairs(df) == Len(Unranked(df))

\* get_nb_ranked_pairs that counts the winners that are true as Python values
RECURSIVE get_nb_ranked_pairs_truthy(_)
get_nb_ranked_pairs_truthy(df) ==
    IF df = <<>> THEN 0
    ELSE (IF isna(df[1].winner) \/ df[1].winner = Some(0) THEN 0 ELSE 1)
            + get_nb_ranked_pairs_truthy(Tail(df))

get_nb_ranked_pairs(df) == Len(Ranked(df))

get_nb_pairs(df) == Len(df)

\* the result (None, None) of get_next_unranked_pair and get_last_ranked_pair
NoPair == <<>>

\* get_next_unranked_pair with iloc[-1]
get_next_unranked_pair_last(df) ==
    LET unranked == Unranked(df)
    IN  IF unranked = <<>> THEN NoPair
        ELSE <<unranked[Len(unranked)].hash1, unranked[Len(unranked)].hash2>>

\* get_next_unranked_pair on all the pairs, ranked or not
get_next_unranked_pair_of_all(df) ==
    IF df = <<>> THEN NoPair ELSE <<df[1].hash1, df[1].hash2>>

\* unranked_pairs.iloc[0], or (None, None)
get_next_unranked_pair(df) ==
    LET unranked == Unranked(df)
    IN  IF unranked = <<>> THEN NoPair ELSE <<unranked[1].hash1, unranked[1].hash2>>

\* ranked_pairs.iloc[-1], or (None, None)
get_last_ranked_pair(df) ==
    LET ranked == Ranked(df)
    IN  IF ranked = <<>> THEN NoPair
        ELSE <<ranked[Len(ranked)].hash1, ranked[Len(ranked)].hash2>>

-----------------------------------------------------------------------------

NoSession == [start |-> <<>>, returned |-> <<>>]

\* __init__ with no file at pairs_path: an empty dataframe, saved
Init ==
    /\ pairs_df = <<>>
    /\ csv = <<>>
    /\ call = NoCall
    /\ pc = "idle"
    /\ unranked_pairs = <<>>
    /\ remaining_pairs = {}
    /\ hash_counts = <<>>
    /\ ordered_rows = <<>>
    /\ session = NoSession

Forget ==
    /\ call # NoCall
    /\ call' = NoCall
    /\ UNCHANGED <<pairs_df, csv, loop_vars, session>>

Called == call = NoCall /\ (add_pairs \/ set_winner \/ reset_rankings \/ reset)

Next == Called \/ Forget

Spec == Init /\ [][Next]_vars

-----------------------------------------------------------------------------
(* _reindex_pairs, one iteration of its while loop at a time *)

PoolHashes == 1..NumPoolItems

\* the pairs a store can hold: hash1 < hash2
PoolPairs == {p \in PoolHashes \X PoolHashes : p[1] < p[2]}

\* the dataframes _reindex_pairs is run on: at most MaxPool rows, one row per
\* pair, each unranked or ranked with winner 0
ReindexInputs ==
    {df \in SeqsUpTo(PoolPairs \X {None, Some(0)}, MaxPool) :
        \A i \in 1..Len(df), j \in 1..Len(df) : i # j => df[i][1] # df[j][1]}

InitReindex ==
    /\ \E df \in ReindexInputs :
         pairs_df = [i \in 1..Len(df) |-> Row(df[i][1][1], df[i][1][2], df[i][2])]
    /\ csv = pairs_df
    /\ call = NoCall
    /\ pc = "start"
    /\ unranked_pairs = <<>>
    /\ remaining_pairs = {}
    /\ hash_counts = <<>>
    /\ ordered_rows = <<>>
    /\ session = NoSession

\* lines 263-278: the pool, the zero counts, the empty result
reindex_begin ==
    /\ pc = "start"
    /\ unranked_pairs' = Unranked(pairs_df)
    /\ remaining_pairs' = 1..Len(unranked_pairs')
    /\ hash_counts' =
         [h \in {unranked_pairs'[i].hash1 : i \in 1..Len(unranked_pairs')}
                \cup {unranked_pairs'[i].hash2 : i \in 1..Len(unranked_pairs')} |-> 0]
    /\ ordered_rows' = <<>>
    /\ pc' = "loop"
    /\ UNCHANGED <<pairs_df, csv, call, session>>

\* remaining_pairs['_score'] of the row with index label i
RowScore(i) == hash_counts[unranked_pairs[i].hash1] + hash_counts[unranked_pairs[i].hash2]

\* min_score_pairs_df without the filter on the minimum score
min_score_pairs_unfiltered == remaining_pairs

\* min_score_pairs_df
min_score_pairs == {i \in remaining_pairs : \A j \in remaining_pairs : RowScore(i) <= RowScore(j)}

\* reindex_step without the drop of the chosen row
reindex_step_no_drop ==
    /\ pc = "loop"
    /\ remaining_pairs # {}
    /\ \E chosen \in min_score_pairs :
         LET h1 == unranked_pairs[chosen].hash1
             h2 == unranked_pairs[chosen].hash2
             counts1 == [hash_counts EXCEPT ![h1] = @ + 1]
         IN  /\ ordered_rows' = Append(ordered_rows, unranked_pairs[chosen])
             /\ hash_counts' = [counts1 EXCEPT ![h2] = @ + 1]
    /\ UNCHANGED <<pairs_df, csv, call, pc, unranked_pairs, remaining_pairs, session>>

\* lines 279-294: one iteration; sample(n=1) draws any row of minimal score
reindex_step ==
    /\ pc = "loop"
    /\ remaining_pairs # {}
    /\ \E chosen \in min_score_pairs :
         LET h1 == unranked_pairs[chosen].hash1
             h2 == unranked_pairs[chosen].hash2
             counts1 == [hash_counts EXCEPT ![h1] = @ + 1]
         IN  /\ ordered_rows' = Append(ordered_rows, unranked_pairs[chosen])
             /\ hash_counts' = [counts1 EXCEPT ![h2] = @ + 1]
             /\ remaining_pairs' = remaining_pairs \ {chosen}
    /\ UNCHANGED <<pairs_df, csv, call, pc, unranked_pairs, session>>

\* lines 296-305: the ordered rows, then the ranked rows; save
reindex_end ==
    /\ pc = "loop"
    /\ remaining_pairs = {}
    /\ pairs_df' = ordered_rows \o Ranked(pairs_df)
    /\ csv' = pairs_df'
    /\ pc' = "done"
    /\ UNCHANGED <<call, unranked_pairs, remaining_pairs, hash_counts, ordered_rows,
                   session>>

NextReindex == reindex_begin \/ reindex_step \/ reindex_end

SpecReindex == InitReindex /\ [][NextReindex]_vars

\* the while loop keeps running until remaining_pairs is empty
SpecReindexFair == SpecReindex /\ WF_vars(NextReindex)

-----------------------------------------------------------------------------
(* a labeling session: the next unranked pair, then set_winner on it *)

InitSession ==
    /\ \E df \in ReindexInputs :
         pairs_df = [i \in 1..Len(df) |-> Row(df[i][1][1], df[i][1][2], df[i][2])]
    /\ csv = pairs_df
    /\ call = NoCall
    /\ pc = "idle"
    /\ unranked_pairs = <<>>
    /\ remaining_pairs = {}
    /\ hash_counts = <<>>
    /\ ordered_rows = <<>>
    /\ session = [start |-> pairs_df, returned |-> <<>>]

\* the numbers in [0, 1] the labeler gives
LabelArgs == {0, 1}

label_step ==
    LET next == get_next_unranked_pair(pairs_df)
    IN  /\ next # NoPair
        /\ \E winner \in LabelArgs : set_winner_body(next[1], next[2], winner)
        /\ session' = [session EXCEPT !.returned = Append(@, next)]
        /\ UNCHANGED loop_vars

SpecSession == InitSession /\ [][label_step]_vars

-----------------------------------------------------------------------------
(* The claims *)

\* the rows of df for the unordered pair of r
SamePair(r, s) == {r.hash1, r.hash2} = {s.hash1, s.hash2}

\* the winners of the observed call, one per pair (line 323)
EffectiveWinners(c) ==
    IF c.winners = None THEN [j \in 1..Len(c.pairs) |-> None] ELSE c.winners[1]

\* the observed call returned without raising
Returned(op) == call.op = op /\ ~call.raised

\* C1: the store never holds two records for the same unordered pair of items,
\* in either orientation.
C1_UniquePairs ==
    \A i \in 1..Len(pairs_df), j \in 1..Len(pairs_df) :
        i # j => ~SamePair(pairs_df[i], pairs_df[j])

\* a batch submitted a new pair in both orientations next to an existing record
C1_Witness ==
    /\ Returned("add_pairs")
    /\ Len(call.pairs) = 2
    /\ call.pairs[1][1] # call.pairs[1][2]
    /\ call.pairs[2] = <<call.pairs[1][2], call.pairs[1][1]>>
    /\ PairIdx(call.old_df, call.pairs[1][1], call.pairs[1][2]) = {}
    /\ Len(call.old_df) = 1
    /\ Len(pairs_df) = 2

\* C2: after any of add_pairs, set_winner, reset_rankings, reset has returned,
\* the rows of the file equal the rows in memory, winners included.
C2_PersistedOnReturn ==
    (call.op \in {"add_pairs", "set_winner", "reset_rankings", "reset"} /\ ~call.raised)
        => csv = pairs_df

\* C3: after add_pairs, a record that the batch submitted once, in the record's
\* own orientation, holds exactly the submitted winner, None included.
C3_ForwardOverwrite ==
    Returned("add_pairs") =>
        \A j \in 1..Len(call.pairs) : \A i \in 1..Len(call.old_df) :
            ( /\ call.old_df[i].hash1 = call.pairs[j][1]
              /\ call.old_df[i].hash2 = call.pairs[j][2]
              /\ \A k \in 1..Len(call.pairs) :
                    k # j => {call.pairs[k][1], call.pairs[k][2]}
                                # {call.pairs[j][1], call.pairs[j][2]} )
            => \E r \in 1..Len(pairs_df) :
                  pairs_df[r] = Row(call.pairs[j][1], call.pairs[j][2],
                                    EffectiveWinners(call)[j])

\* C4: when add_pairs has returned from a batch of two or more submissions with
\* numeric winners that are all for one pair that has a record, the record
\* holds the winner of the last submission, relative to the record's
\* orientation.
C4_LastSubmissionWins ==
    ( /\ Returned("add_pairs")
      /\ Len(call.pairs) >= 2
      /\ \A j \in 1..Len(call.pairs) : ~isna(EffectiveWinners(call)[j]) )
    => \A i \in 1..Len(call.old_df) :
          (\A j \in 1..Len(call.pairs) :
                {call.pairs[j][1], call.pairs[j][2]}
                    = {call.old_df[i].hash1, call.old_df[i].hash2})
          => LET n == Len(call.pairs)
                 w == EffectiveWinners(call)[n]
                 expected == IF call.pairs[n][1] = call.old_df[i].hash1
                             THEN w ELSE FlipWinner(w)
             IN  \E r \in 1..Len(pairs_df) :
                    pairs_df[r] = [call.old_df[i] EXCEPT !.winner = expected]

\* C5: every stored winner is None or a number in [0, 1].
C5_WinnerInRange ==
    \A i \in 1..Len(pairs_df) :
        isna(pairs_df[i].winner)
        \/ (pairs_df[i].winner[1] >= 0 /\ pairs_df[i].winner[1] <= 1)

\* how many of the first k rows of rows hold the hash h
Exposure(rows, k, h) ==
    Cardinality({i \in 1..k : rows[i].hash1 = h \/ rows[i].hash2 = h})

\* C6: after the reorder, in every prefix of the unranked rows, the largest
\* number of rows any hash appears in exceeds the smallest such number, over
\* the hashes that appear in the prefix, by at most 1.
C6_FairPrefixes ==
    pc = "done" =>
        LET rows == Unranked(pairs_df)
        IN  \A k \in 1..Len(rows) :
                \A g \in PoolHashes, h \in PoolHashes :
                    Exposure(rows, k, h) > 0
                        => Exposure(rows, k, g) - Exposure(rows, k, h) <= 1

\* C7: after set_winner(h1, h2, v), or add_pairs of the one submission
\* (h1, h2, v), with h1 # h2 and v a number, has returned, the store holds
\* exactly one record for the pair, in the order hash1 < hash2, with winner v
\* if h1 < h2 and 1 - v if h1 > h2.
C7_WinnerFollowsOrientation ==
    ( /\ (Returned("set_winner") \/ Returned("add_pairs"))
      /\ Len(call.pairs) = 1
      /\ call.pairs[1][1] # call.pairs[1][2]
      /\ call.winners # None
      /\ Len(call.winners[1]) = 1
      /\ ~isna(call.winners[1][1]) )
    => LET h1 == call.pairs[1][1]
           h2 == call.pairs[1][2]
           v == call.winners[1][1][1]
           idx == PairIdx(pairs_df, h1, h2)
       IN  /\ Cardinality(idx) = 1
           /\ \A i \in idx :
                 pairs_df[i] = IF h1 < h2 THEN Row(h1, h2, Some(v))
                               ELSE Row(h2, h1, Some(1 - v))

\* set_winner(b, a, v) with a < b on a record (a, b) that held another winner
C7_Witness ==
    /\ Returned("set_winner")
    /\ call.pairs[1][1] > call.pairs[1][2]
    /\ \E i \in PairIdx(call.old_df, call.pairs[1][1], call.pairs[1][2]) :
          /\ ~isna(call.old_df[i].winner)
          /\ call.old_df[i].winner # Some(1 - call.winners[1][1][1])
    /\ \E i \in 1..Len(pairs_df) :
          pairs_df[i] = Row(call.pairs[1][2], call.pairs[1][1],
                            Some(1 - call.winners[1][1][1]))

\* C8: every stored record has hash1 <= hash2.
C8_CanonicalOrientation ==
    \A i \in 1..Len(pairs_df) : pairs_df[i].hash1 <= pairs_df[i].hash2

\* add_pairs stored a pair that was new and was submitted as (b, a) with a < b
C8_Witness ==
    /\ Returned("add_pairs")
    /\ \E j \in 1..Len(call.pairs) :
          /\ call.pairs[j][1] > call.pairs[j][2]
          /\ PairIdx(call.old_df, call.pairs[j][1], call.pairs[j][2]) = {}
          /\ PairIdx(pairs_df, call.pairs[j][1], call.pairs[j][2]) # {}

\* C9: add_pairs with a winners list whose length is not the number of pairs
\* raises ValueError and leaves the dataframe and the file as they were.
C9_LengthMismatchRaises ==
    ( /\ call.op = "add_pairs"
      /\ call.winners # None
      /\ Len(call.winners[1]) # Len(call.pairs) )
    => /\ call.raised
       /\ pairs_df = call.old_df
       /\ csv = call.old_csv

\* C10: set_winner with winner < 0 or winner > 1 raises ValueError and leaves
\* the dataframe and the file as they were.
C10_SetWinnerRejectsOutOfRange ==
    ( /\ call.op = "set_winner"
      /\ (call.winners[1][1][1] < 0 \/ call.winners[1][1][1] > 1) )
    => /\ call.raised
       /\ pairs_df = call.old_df
       /\ csv = call.old_csv

\* set_winner with winner -1 on a pair that has a record, file behind the memory
C10_Witness ==
    /\ call.op = "set_winner"
    /\ call.raised
    /\ call.winners[1][1][1] < 0
    /\ PairIdx(call.old_df, call.pairs[1][1], call.pairs[1][2]) # {}
    /\ call.old_csv # call.old_df

-----------------------------------------------------------------------------

\* the record a submission (pair, w) of two different hashes is stored as
StoredAs(pair, w) ==
    IF pair[1] < pair[2] THEN Row(pair[1], pair[2], w)
    ELSE Row(pair[2], pair[1], IF w = None THEN None ELSE Some(1 - w[1]))

\* the submissions of the observed call for the same two hashes as submission j
SameSubmissions(j) ==
    {k \in 1..Len(call.pairs) :
        {call.pairs[k][1], call.pairs[k][2]} = {call.pairs[j][1], call.pairs[j][2]}}

Last(S) == CHOOSE x \in S : \A y \in S : y <= x

\* C11: when a batch given to add_pairs holds several submissions for one pair
\* of two different hashes that the store did not hold, the store holds
\* exactly one record for that pair after the call, and it is the last of those
\* submissions, stored with hash1 < hash2 and the winner adjusted to that.
C11_DuplicateNewPairKeepsLast ==
    Returned("add_pairs") =>
        \A j \in 1..Len(call.pairs) :
            LET p == call.pairs[j]
                idx == PairIdx(pairs_df, p[1], p[2])
                last == Last(SameSubmissions(j))
            IN  (/\ p[1] # p[2]
                 /\ Cardinality(SameSubmissions(j)) >= 2
                 /\ PairIdx(call.old_df, p[1], p[2]) = {})
                => /\ Cardinality(idx) = 1
                   /\ \A i \in idx :
                        pairs_df[i] = StoredAs(call.pairs[last], EffectiveWinners(call)[last])

\* a new pair submitted twice, in both orientations, where the first submission
\* alone would have stored another winner than the last one
C11_Witness ==
    /\ Returned("add_pairs")
    /\ Len(call.pairs) = 2
    /\ call.pairs[1][1] < call.pairs[1][2]
    /\ call.pairs[2] = <<call.pairs[1][2], call.pairs[1][1]>>
    /\ PairIdx(call.old_df, call.pairs[1][1], call.pairs[1][2]) = {}
    /\ EffectiveWinners(call) = <<Some(0), Some(0)>>
    /\ Len(call.old_df) = 1
    /\ pairs_df[Len(pairs_df)] = Row(call.pairs[1][1], call.pairs[1][2], Some(1))

\* C12: no record of the store has hash1 = hash2, and a call of add_pairs or
\* set_winner whose submissions are all of one hash with itself leaves the
\* number of records as it was.
C12_SelfPairsNotStored ==
    /\ \A i \in 1..Len(pairs_df) : pairs_df[i].hash1 # pairs_df[i].hash2
    /\ (/\ call.op \in {"add_pairs", "set_winner"}
        /\ call.pairs # <<>>
        /\ \A j \in 1..Len(call.pairs) : call.pairs[j][1] = call.pairs[j][2])
       => get_nb_pairs(pairs_df) = get_nb_pairs(call.old_df)

\* add_pairs returned from a batch of one hash with itself, with a winner
C12_Witness ==
    /\ Returned("add_pairs")
    /\ Len(call.pairs) = 1
    /\ call.pairs[1][1] = call.pairs[1][2]
    /\ EffectiveWinners(call) = <<Some(0)>>
    /\ Len(call.old_df) = 1
    /\ Len(pairs_df) = 1

\* add_pairs ran to its end: called directly, or by set_winner for a pair the
\* store did not hold
AddPairsReturned ==
    \/ Returned("add_pairs")
    \/ /\ Returned("set_winner")
       /\ PairIdx(call.old_df, call.pairs[1][1], call.pairs[1][2]) = {}

\* the last submission of the observed call for the pair of record r
LastSubmission(r) ==
    Last({k \in 1..Len(call.pairs) : {call.pairs[k][1], call.pairs[k][2]} = {r.hash1, r.hash2}})

\* C13: after add_pairs ran to its end, the empty batch included, every
\* unranked record comes before every ranked record, and the ranked records
\* are in the order they had before the reorder: those the store held in
\* their old order, then the new ones in the order of their last submissions.
C13_UnrankedThenRanked ==
    AddPairsReturned =>
        \A i \in 1..Len(pairs_df), j \in 1..Len(pairs_df) :
            (i < j /\ ~isna(pairs_df[i].winner)) =>
                LET r == pairs_df[i]
                    s == pairs_df[j]
                    r_old == PairIdx(call.old_df, r.hash1, r.hash2)
                    s_old == PairIdx(call.old_df, s.hash1, s.hash2)
                IN  /\ ~isna(s.winner)
                    /\ (r_old # {} /\ s_old # {}) => Min(r_old) < Min(s_old)
                    /\ r_old = {} => s_old = {}
                    /\ (r_old = {} /\ s_old = {}) => LastSubmission(r) < LastSubmission(s)

\* the store held a ranked record before an unranked one, and add_pairs moved
\* the unranked one to the front
C13_Witness ==
    /\ Returned("add_pairs")
    /\ Len(call.old_df) = 2
    /\ ~isna(call.old_df[1].winner)
    /\ isna(call.old_df[2].winner)
    /\ Len(pairs_df) = 2
    /\ pairs_df[1] = call.old_df[2]
    /\ pairs_df[2] = call.old_df[1]

\* the records of df, as a set
Records(df) == {df[i] : i \in 1..Len(df)}

\* C14: add_pairs with an empty batch returns, and leaves the records, the
\* ranked records and the order of the ranked records as they were: only
\* where the unranked records are can differ.
C14_EmptyBatchOnlyReorders ==
    (call.op = "add_pairs" /\ call.pairs = <<>>) =>
        /\ ~call.raised
        /\ get_nb_pairs(pairs_df) = get_nb_pairs(call.old_df)
        /\ Records(pairs_df) = Records(call.old_df)
        /\ Ranked(pairs_df) = Ranked(call.old_df)
        /\ Records(Unranked(pairs_df)) = Records(Unranked(call.old_df))

\* an empty batch that changed the order of two records
C14_Witness ==
    /\ call.op = "add_pairs"
    /\ call.pairs = <<>>
    /\ Len(call.old_df) = 2
    /\ pairs_df = <<call.old_df[2], call.old_df[1]>>

\* C15: reset_rankings returns, leaves every record unranked (no ranked
\* record, as many unranked records as records), and leaves the number of
\* records, their pairs and their order as they were.
C15_ResetRankingsKeepsPairs ==
    call.op = "reset_rankings" =>
        /\ ~call.raised
        /\ get_nb_ranked_pairs(pairs_df) = 0
        /\ get_nb_unranked_pairs(pairs_df) = get_nb_pairs(pairs_df)
        /\ get_nb_pairs(pairs_df) = get_nb_pairs(call.old_df)
        /\ \A i \in 1..Len(call.old_df) :
              /\ pairs_df[i].hash1 = call.old_df[i].hash1
              /\ pairs_df[i].hash2 = call.old_df[i].hash2

\* reset_rankings on a store of an unranked record followed by a ranked one
C15_Witness ==
    /\ call.op = "reset_rankings"
    /\ Len(call.old_df) = 2
    /\ isna(call.old_df[1].winner)
    /\ ~isna(call.old_df[2].winner)
    /\ get_nb_unranked_pairs(pairs_df) = 2

\* C16: after set_winner(a, b, v) returned, with a # b, get_last_ranked_pair
\* returns the pair of the stored record of a and b.
C16_LastRankedIsLastJudged ==
    (Returned("set_winner") /\ call.pairs[1][1] # call.pairs[1][2]) =>
        LET idx == PairIdx(pairs_df, call.pairs[1][1], call.pairs[1][2])
        IN  /\ idx # {}
            /\ get_last_ranked_pair(pairs_df) =
                   <<pairs_df[Min(idx)].hash1, pairs_df[Min(idx)].hash2>>

\* the score of record r after k records were put in ordered_rows
ExposureScore(k, r) ==
    Exposure(ordered_rows, k, r.hash1) + Exposure(ordered_rows, k, r.hash2)

\* the records of the pool that are not among the first k of ordered_rows
PoolAfter(k) ==
    {unranked_pairs[i] : i \in 1..Len(unranked_pairs)} \ {ordered_rows[i] : i \in 1..k}

\* C17: in _reindex_pairs, the k-th record put in the output has, counting
\* for each hash the records put in the output before it, a score no larger
\* than that of any record still in the pool at that iteration.
C17_GreedyStepMinimal ==
    \A k \in 1..Len(ordered_rows) :
        \A r \in PoolAfter(k - 1) :
            ExposureScore(k - 1, ordered_rows[k]) <= ExposureScore(k - 1, r)

\* the loop ended on a pool of MaxPool records, and at some iteration a record
\* of the pool had a strictly larger score than the chosen one
C17_Witness ==
    /\ pc = "done"
    /\ Len(ordered_rows) = MaxPool
    /\ \E k \in 1..Len(ordered_rows) :
         \E r \in PoolAfter(k) :
            ExposureScore(k - 1, ordered_rows[k]) < ExposureScore(k - 1, r)

\* the rows of df where the winner is absent
PendingRows(df) == {i \in 1..Len(df) : df[i].winner = None}

\* C18: get_next_unranked_pair returns the pair of the first record, in the
\* order of the store, that has no winner, whatever ranked records precede
\* it, and returns (None, None) exactly when get_nb_unranked_pairs is 0.
C18_NextIsFirstUnranked ==
    LET next == get_next_unranked_pair(pairs_df)
        pending == PendingRows(pairs_df)
    IN  /\ (next = NoPair) <=> (get_nb_unranked_pairs(pairs_df) = 0)
        /\ pending = {} => next = NoPair
        /\ pending # {} =>
              next = <<pairs_df[Min(pending)].hash1, pairs_df[Min(pending)].hash2>>

\* set_winner on a stored pair left a ranked record before an unranked one
C18_Witness ==
    /\ Returned("set_winner")
    /\ Len(pairs_df) = 2
    /\ pairs_df[1].winner # None
    /\ pairs_df[2].winner = None
    /\ get_next_unranked_pair(pairs_df) = <<pairs_df[2].hash1, pairs_df[2].hash2>>

\* C19: in a labeling session, after k steps the number of unranked records
\* is k less than at the start and the number of records is as at the start,
\* every set_winner returned, no pair was returned twice, no pair returned so
\* far is returned next, and after as many steps as there were unranked
\* records get_next_unranked_pair returns (None, None).
C19_SessionProgress ==
    LET k == Len(session.returned)
        next == get_next_unranked_pair(pairs_df)
    IN  /\ get_nb_unranked_pairs(pairs_df) = get_nb_unranked_pairs(session.start) - k
        /\ get_nb_pairs(pairs_df) = get_nb_pairs(session.start)
        /\ ~call.raised
        /\ \A i \in 1..k, j \in 1..k : i # j => session.returned[i] # session.returned[j]
        /\ \A i \in 1..k : next # session.returned[i]
        /\ k = get_nb_unranked_pairs(session.start) => next = NoPair

\* a session on two unranked records with a ranked record between them, at its end
C19_Witness ==
    /\ Len(session.start) = 3
    /\ session.start[1].winner = None
    /\ session.start[2].winner # None
    /\ session.start[3].winner = None
    /\ Len(session.returned) = 2
    /\ get_next_unranked_pair(pairs_df) = NoPair

\* C20: the loop of _reindex_pairs ends; each iteration takes exactly one
\* record out of the pool and puts exactly one in the output, so a pool of n
\* records takes n iterations; and at the end the unranked records of the
\* store are the records of the pool, each once, each still without a winner.
C20_LoopEndsWithPermutation ==
    /\ [](pc = "loop" =>
            /\ Len(ordered_rows) + Cardinality(remaining_pairs) = Len(unranked_pairs)
            /\ Records(ordered_rows) = {unranked_pairs[i] : i \in 1..Len(unranked_pairs)}
                                           \ {unranked_pairs[i] : i \in remaining_pairs})
    /\ [][(pc = "loop" /\ pc' = "loop") =>
            /\ Cardinality(remaining_pairs') = Cardinality(remaining_pairs) - 1
            /\ Len(ordered_rows') = Len(ordered_rows) + 1]_vars
    /\ [](pc = "done" =>
            /\ Len(ordered_rows) = Len(unranked_pairs)
            /\ Len(Unranked(pairs_df)) = Len(unranked_pairs)
            /\ Records(Unranked(pairs_df)) = Records(unranked_pairs)
            /\ \A i \in 1..Len(unranked_pairs) : unranked_pairs[i].winner = None)
    /\ <>(pc = "done")

\* the loop ended on a pool of MaxPool records and changed their order
C20_Witness ==
    /\ pc = "done"
    /\ Len(unranked_pairs) = MaxPool
    /\ Unranked(pairs_df) # unranked_pairs

\* C21: set_winner(a, b, v) with v in [0, 1], on a store that holds a record
\* for a and b, returns and changes nothing but the winner of that one
\* record: every other record, the pair of that record, the order of the
\* records and their number are as before.
C21_SetWinnerTouchesOneRecord ==
    (/\ call.op = "set_winner"
     /\ call.winners[1][1][1] \in 0..1
     /\ PairIdx(call.old_df, call.pairs[1][1], call.pairs[1][2]) # {})
    => LET idx == PairIdx(call.old_df, call.pairs[1][1], call.pairs[1][2])
       IN  /\ ~call.raised
           /\ Cardinality(idx) = 1
           /\ get_nb_pairs(pairs_df) = get_nb_pairs(call.old_df)
           /\ \A i \in 1..Len(call.old_df) :
                 /\ pairs_df[i].hash1 = call.old_df[i].hash1
                 /\ pairs_df[i].hash2 = call.old_df[i].hash2
                 /\ i \notin idx => pairs_df[i].winner = call.old_df[i].winner

\* set_winner gave a winner to the first of two records, the second one
\* unranked, and the first one is still first
C21_Witness ==
    /\ Returned("set_winner")
    /\ Len(call.old_df) = 2
    /\ PairIdx(call.old_df, call.pairs[1][1], call.pairs[1][2]) = {1}
    /\ isna(call.old_df[1].winner)
    /\ isna(call.old_df[2].winner)
    /\ ~isna(pairs_df[1].winner)
    /\ pairs_df[2] = call.old_df[2]

\* C22: in every state the numbers of unranked and of ranked records add up
\* to the number of records; after add_pairs, set_winner or reset_rankings,
\* raised or not, the number of records is at least what it was; after reset
\* it is 0.
C22_CountsConsistent ==
    /\ get_nb_unranked_pairs(pairs_df) + get_nb_ranked_pairs(pairs_df) = get_nb_pairs(pairs_df)
    /\ call.op \in {"add_pairs", "set_winner", "reset_rankings"}
          => get_nb_pairs(pairs_df) >= get_nb_pairs(call.old_df)
    /\ call.op = "reset" => get_nb_pairs(pairs_df) = 0

\* add_pairs added a record with winner 0 to a store that held an unranked one
C22_Witness ==
    /\ Returned("add_pairs")
    /\ get_nb_pairs(call.old_df) = 1
    /\ get_nb_pairs(pairs_df) = 2
    /\ get_nb_unranked_pairs(pairs_df) = 1
    /\ get_nb_ranked_pairs(pairs_df) = 1
    /\ pairs_df[2].winner = Some(0)

====
